---- MODULE Spec2Model ----
(***************************************************************************)
(* astro_utils: the solocube frame viewer, the image-grid layout of        *)
(* plot_image_grid / plot_aia_image_grid, fetch_goes_data and              *)
(* read_fits_single, as state machines.                                    *)
(*                                                                         *)
(* Python's None is the empty sequence and a present value x is <<x>>, so  *)
(* that "is None" is a comparison of values of one kind.                   *)
(***************************************************************************)
EXTENDS Integers, Sequences, FiniteSets

VARIABLES
    \* ---- solocube (visualization.py) ----
    data,          \* self.data: the cube, a sequence of frames
    generator,     \* self.generator: None or <<[items, pos]>>
    frame_num,     \* self.frame_num: None or <<start index>>
    nCalls,        \* number of frame_viewer calls made so far
    lastArg,       \* frame_num argument of the last frame_viewer call
    lastRet,       \* value returned by the last frame_viewer call
    outcome,       \* "new" | "returned" | "raised" : how the last call ended
    firstArg,      \* <<>> before any call, else <<argument of the first call>>
    laterIdx,      \* a call after the first one supplied a start index
    renderFailed,  \* some render callback raised
    exhaustedSeen, \* some call reported "Generator is exhausted"
    exhaustedRec,  \* some call reported it with a start index recorded
    cursors,       \* history: one entry per generator object ever created
    \* ---- plot_image_grid / plot_aia_image_grid ----
    gridIn,        \* the arguments of the call
    gridFn,        \* which of the two functions was called ("" before)
    axes,          \* the rectangles passed to fig.add_axes, in call order
    figsize,       \* None or <<(width, height) in inches>>
    gridOutcome,   \* "idle" | "returned" | "shown" | "AssertionError" | "KeyError"
    \* ---- fetch_goes_data (flare/download.py) ----
    fetchIn,       \* what the sunpy calls of this run do: [rows, fail, kind]
    fetched,       \* None or <<the rows passed to Fido.fetch>>
    fetchResult,   \* None or <<the time series returned>>
    fetchOutcome,  \* "idle" | "returned" | the class of the exception raised
    \* ---- read_fits_single (utils.py) ----
    openHandles,   \* file handles opened by read_fits_single and not yet closed
    readLog,       \* history: [file, how] of every read_fits_single call
    fitsRet        \* None or <<the array returned by the last call>>

viewerVars == <<data, generator, frame_num, nCalls, lastArg, lastRet, outcome,
                firstArg, laterIdx, renderFailed, exhaustedSeen, exhaustedRec,
                cursors>>

gridVars == <<gridIn, gridFn, axes, figsize, gridOutcome>>

fetchVars == <<fetchIn, fetched, fetchResult, fetchOutcome>>
fitsVars == <<openHandles, readLog, fitsRet>>

vars == <<viewerVars, gridVars, fetchVars, fitsVars>>

None == <<>>
Some(x) == <<x>>

\* images of shape (3, 10, 10), cols=2, gap=0, dpi=100
ExampleGrid ==
    [n |-> 3, H |-> 10, W |-> 10, cols |-> 2, gap |-> 0, dpi |-> 100,
     show |-> FALSE]

\* ---- bounds ----
MaxN == 3          \* longest cube
MaxCalls == 5      \* frame_viewer calls per viewer

\* frame contents
FrameVals == {1, 2}
Cubes == UNION {[1..n -> FrameVals] : n \in 0..MaxN}
StartArgs == {None} \cup {Some(s) : s \in (-1)..(MaxN + 1)}

Min(a, b) == IF a < b THEN a ELSE b
Max(a, b) == IF a < b THEN b ELSE a

\* data[frame_num:] : Python slicing, negative indices count from the end,
\* out-of-range indices are clamped.
\* (faulty variant: the slice starts one frame late)
SliceFrom_off(d, s) == SubSeq(d, Min(Max(s, 0), Len(d)) + 2, Len(d))
SliceFrom(d, s) ==
    LET start == IF s < 0 THEN Max(Len(d) + s, 0) ELSE Min(s, Len(d))
    IN  SubSeq(d, start + 1, Len(d))

\* frame_generator(data): a fresh generator over enumerate(data)
frame_generator(d) == [items |-> d, pos |-> 0]

\* next(generator) raises StopIteration
Exhausted(g) == g.pos >= Len(g.items)

\* the frame next(generator) yields, None on StopIteration
NextFrame(g) == IF Exhausted(g) THEN None ELSE Some(g.items[g.pos + 1])

\* the generator after next(); an exhausted generator stays exhausted
Advance(g) == IF Exhausted(g) THEN g ELSE [g EXCEPT !.pos = g.pos + 1]

\* lines 139-140: a supplied start index is honoured only while none is recorded
\* (faulty variant: every supplied start index is honoured)
HonourStart_always(arg, fn) == arg # None
HonourStart(arg, fn) == arg # None /\ fn = None

\* line 143: the lazy creation of the cursor over the whole cube
\* (faulty variant: an exhausted cursor is recreated)
NeedsLazy_restart(g) == g = None \/ Exhausted(g[1])
NeedsLazy(g) == g = None

InitViewer ==
    /\ data \in Cubes
    /\ generator = None
    /\ frame_num = None
    /\ nCalls = 0
    /\ lastArg = None
    /\ lastRet = None
    /\ outcome = "new"
    /\ firstArg = <<>>
    /\ laterIdx = FALSE
    /\ renderFailed = FALSE
    /\ exhaustedSeen = FALSE
    /\ exhaustedRec = FALSE
    /\ cursors = <<>>
    \* the other components at rest
    /\ gridIn = ExampleGrid
    /\ gridFn = ""
    /\ axes = <<>>
    /\ figsize = None
    /\ gridOutcome = "idle"
    /\ fetchIn = [rows |-> <<>>, fail |-> "none", kind |-> "ConnectionError"]
    /\ fetched = None
    /\ fetchResult = None
    /\ fetchOutcome = "idle"
    /\ openHandles = 0
    /\ readLog = <<>>
    /\ fitsRet = None

\* solocube.frame_viewer(frame_num=arg, plot_func=...): renderOk says whether
\* the render callback (plot_func or plot_frame) returns or raises.
frame_viewer(arg, renderOk) ==
    LET honour == HonourStart(arg, frame_num)
        g1 == IF honour THEN Some(frame_generator(SliceFrom(data, arg[1])))
                        ELSE generator
        fn1 == IF honour THEN arg ELSE frame_num
        c1 == IF honour THEN Append(cursors, [by |-> "index", start |-> arg])
                        ELSE cursors
        lazy == NeedsLazy(g1)
        g2 == IF lazy THEN Some(frame_generator(data)) ELSE g1
        c2 == IF lazy THEN Append(c1, [by |-> "lazy", start |-> None]) ELSE c1
        fr == NextFrame(g2[1])
    IN  /\ nCalls < MaxCalls
        /\ nCalls' = nCalls + 1
        /\ lastArg' = arg
        /\ firstArg' = IF nCalls = 0 THEN <<arg>> ELSE firstArg
        /\ laterIdx' = (laterIdx \/ (nCalls > 0 /\ arg # None))
        /\ frame_num' = fn1
        /\ generator' = Some(Advance(g2[1]))
        /\ cursors' = c2
        /\ exhaustedSeen' = (exhaustedSeen \/ fr = None)
        /\ exhaustedRec' = (exhaustedRec \/ (fr = None /\ fn1 # None))
        /\ IF fr = None
             THEN /\ lastRet' = None
                  /\ outcome' = "returned"
                  /\ renderFailed' = renderFailed
             ELSE IF renderOk
               THEN /\ lastRet' = fr
                    /\ outcome' = "returned"
                    /\ renderFailed' = renderFailed
               ELSE /\ lastRet' = None
                    /\ outcome' = "raised"
                    /\ renderFailed' = TRUE
        /\ UNCHANGED <<data, gridVars, fetchVars, fitsVars>>

NextViewer == \E arg \in StartArgs, renderOk \in BOOLEAN : frame_viewer(arg, renderOk)

(***************************************************************************)
(* The image grid: plot_image_grid (visualization.py) and                  *)
(* plot_aia_image_grid (aia.py).  The figure fractions are exact rationals *)
(* [num, den]; the rounding of binary floating point is not modelled.      *)
(***************************************************************************)
MaxImages == 4     \* most images in a grid
MaxCols == 3       \* most columns
MaxDim == 2        \* largest image height and width in pixels
MaxGap == 1        \* largest gap in pixels

Frac(a, b) == [num |-> a, den |-> b]
FracOne == Frac(1, 1)
FracSub(a, b) == Frac(a.num * b.den - b.num * a.den, a.den * b.den)
FracEq(a, b) == a.num * b.den = b.num * a.den

Passbands == {"171", "999"}
PassbandLists == UNION {[1..m -> Passbands] : m \in 0..MaxImages}

\* matplotlib.colormaps[f'sdoaia{passband}'] finds a colormap
KnownPassband(p) == p = "171"

GridInputs ==
    [n : 1..MaxImages, H : 1..MaxDim, W : 1..MaxDim, cols : 1..MaxCols,
     gap : 0..MaxGap, dpi : {100, 200}, show : BOOLEAN]
    \cup {ExampleGrid}

\* math.ceil(n / cols)
CeilDiv(n, cols) == IF n % cols = 0 THEN n \div cols ELSE (n \div cols) + 1

total_width_px(cols, W, gap) == cols * W + (cols - 1) * gap
total_height_px(rows, H, gap) == rows * H + (rows - 1) * gap

\* (faulty variant: the row computed like the column)
RowOf_mod(idx, cols) == idx % cols
RowOf(idx, cols) == idx \div cols
ColOf(idx, cols) == idx % cols

\* (faulty variant: the gap left out of the column pitch)
Left_nogap(col, W, gap, tw) == Frac(col * W, tw)
Left(col, W, gap, tw) == Frac(col * (W + gap), tw)

\* (faulty variant: rows counted from the bottom of the figure)
Bottom_noflip(row, H, gap, th) == Frac(row * (H + gap), th)
Bottom(row, H, gap, th) == FracSub(FracOne, Frac((row + 1) * H + row * gap, th))

\* [left, bottom, width, height] of image idx (0-based)
AxesRect(idx, in) ==
    LET rows == CeilDiv(in.n, in.cols)
        tw == total_width_px(in.cols, in.W, in.gap)
        th == total_height_px(rows, in.H, in.gap)
    IN  [left |-> Left(ColOf(idx, in.cols), in.W, in.gap, tw),
         bottom |-> Bottom(RowOf(idx, in.cols), in.H, in.gap, th),
         width |-> Frac(in.W, tw),
         height |-> Frac(in.H, th)]

\* figsize = (total_width_px / dpi, total_height_px / dpi)
FigSize(in) ==
    LET rows == CeilDiv(in.n, in.cols)
    IN  <<Frac(total_width_px(in.cols, in.W, in.gap), in.dpi),
          Frac(total_height_px(rows, in.H, in.gap), in.dpi)>>

InitGrid ==
    /\ gridIn \in GridInputs
    /\ gridFn = ""
    /\ axes = <<>>
    /\ figsize = None
    /\ gridOutcome = "idle"
    \* the other components at rest
    /\ data = <<>>
    /\ generator = None
    /\ frame_num = None
    /\ nCalls = 0
    /\ lastArg = None
    /\ lastRet = None
    /\ outcome = "new"
    /\ firstArg = <<>>
    /\ laterIdx = FALSE
    /\ renderFailed = FALSE
    /\ exhaustedSeen = FALSE
    /\ exhaustedRec = FALSE
    /\ cursors = <<>>
    /\ fetchIn = [rows |-> <<>>, fail |-> "none", kind |-> "ConnectionError"]
    /\ fetched = None
    /\ fetchResult = None
    /\ fetchOutcome = "idle"
    /\ openHandles = 0
    /\ readLog = <<>>
    /\ fitsRet = None

plot_image_grid ==
    /\ gridOutcome = "idle"
    /\ gridFn' = "plot_image_grid"
    /\ figsize' = Some(FigSize(gridIn))
    /\ axes' = [i \in 1..gridIn.n |-> AxesRect(i - 1, gridIn)]
    /\ gridOutcome' = IF gridIn.show THEN "shown" ELSE "returned"
    /\ UNCHANGED <<gridIn, viewerVars, fetchVars, fitsVars>>

plot_aia_image_grid(pb) ==
    LET bad == {i \in 1..Len(pb) : ~KnownPassband(pb[i])}
        \* the image whose colormap lookup raises, n when none does
        last == IF bad = {} THEN gridIn.n
                ELSE CHOOSE i \in bad : \A j \in bad : i <= j
    IN  /\ gridOutcome = "idle"
        /\ gridFn' = "plot_aia_image_grid"
        /\ IF gridIn.n # Len(pb)
             THEN /\ gridOutcome' = "AssertionError"
                  /\ figsize' = None
                  /\ axes' = <<>>
             ELSE /\ figsize' = Some(FigSize(gridIn))
                  /\ axes' = [i \in 1..last |-> AxesRect(i - 1, gridIn)]
                  /\ gridOutcome' = IF bad # {} THEN "KeyError"
                                    ELSE IF gridIn.show THEN "shown"
                                    ELSE "returned"
        /\ UNCHANGED <<gridIn, viewerVars, fetchVars, fitsVars>>

NextGrid ==
    \/ plot_image_grid
    \/ \E pb \in PassbandLists : plot_aia_image_grid(pb)

(***************************************************************************)
(* fetch_goes_data (flare/download.py).  The sunpy calls are the            *)
(* environment: rows is the SatelliteNumber column of the search result,   *)
(* fail the call that raises (if any) and kind the class it raises.        *)
(***************************************************************************)
MaxRows == 3       \* most rows in a search result

Satellites == {16, 17, 18}
FetchSteps == <<"search", "index", "argmax", "fetch", "concat", "truncate">>
ErrorKinds == {"ConnectionError", "KeyboardInterrupt"}
RowLists == UNION {[1..m -> Satellites] : m \in 0..MaxRows}

FetchInputs ==
    [rows : RowLists,
     fail : {FetchSteps[i] : i \in 1..Len(FetchSteps)} \cup {"none"},
     kind : ErrorKinds]

\* int(np.argmax(responses["SatelliteNumber"])): 0-based index of the first
\* largest entry
satellite_filter_index(rows) ==
    (CHOOSE i \in 1..Len(rows) :
        /\ \A j \in 1..Len(rows) : rows[j] <= rows[i]
        /\ \A j \in 1..(i - 1) : rows[j] < rows[i]) - 1

\* result[0, satellite_filter_index:]
FilteredRows(rows) == SubSeq(rows, satellite_filter_index(rows) + 1, Len(rows))

StepNo(s) == CHOOSE i \in 1..Len(FetchSteps) : FetchSteps[i] = s

\* the exception raised inside the try block, None when every line succeeds;
\* np.argmax of an empty column raises ValueError
RaisedInTry(in) ==
    IF in.fail # "none" /\ StepNo(in.fail) <= StepNo("argmax") THEN Some(in.kind)
    ELSE IF in.rows = <<>> THEN Some("ValueError")
    ELSE IF in.fail # "none" THEN Some(in.kind)
    ELSE None

\* line 14 is reached and Fido.fetch is called
ReachesFetch(in) ==
    /\ in.rows # <<>>
    /\ in.fail = "none" \/ StepNo(in.fail) >= StepNo("fetch")

\* line 19, "except:", catches every exception class
\* (faulty variant: "except Exception:", which lets KeyboardInterrupt through)
Catches_Exception(kind) == kind # "KeyboardInterrupt"
Catches(kind) == TRUE

InitFetch ==
    /\ fetchIn \in FetchInputs
    /\ fetched = None
    /\ fetchResult = None
    /\ fetchOutcome = "idle"
    \* the other components at rest
    /\ data = <<>>
    /\ generator = None
    /\ frame_num = None
    /\ nCalls = 0
    /\ lastArg = None
    /\ lastRet = None
    /\ outcome = "new"
    /\ firstArg = <<>>
    /\ laterIdx = FALSE
    /\ renderFailed = FALSE
    /\ exhaustedSeen = FALSE
    /\ exhaustedRec = FALSE
    /\ cursors = <<>>
    /\ gridIn = ExampleGrid
    /\ gridFn = ""
    /\ axes = <<>>
    /\ figsize = None
    /\ gridOutcome = "idle"
    /\ openHandles = 0
    /\ readLog = <<>>
    /\ fitsRet = None

fetch_goes_data ==
    LET raised == RaisedInTry(fetchIn)
    IN  /\ fetchOutcome = "idle"
        /\ fetched' = IF ReachesFetch(fetchIn)
                        THEN Some(FilteredRows(fetchIn.rows)) ELSE None
        /\ IF raised = None
             THEN /\ fetchOutcome' = "returned"
                  /\ fetchResult' = Some(FilteredRows(fetchIn.rows))
             ELSE /\ fetchOutcome' = IF Catches(raised[1]) THEN "RuntimeError"
                                    ELSE raised[1]
                  /\ fetchResult' = None
        /\ UNCHANGED <<fetchIn, viewerVars, gridVars, fitsVars>>

NextFetch == fetch_goes_data

(***************************************************************************)
(* read_fits_single (utils.py)                                             *)
(***************************************************************************)
MaxReads == 3      \* read_fits_single calls in a run

Files == {"a.fits", "b.fits"}
\* how the astropy calls of one read behave: all succeed, fits.open raises,
\* hdul[0].data.copy() raises, or del hdul[0].data raises
ReadCases == {"ok", "open_raises", "data_raises", "del_raises"}

\* fits.open(file_path): a handle is open unless the call raises
AfterOpen(h, how) == IF how = "open_raises" THEN h ELSE h + 1

\* leaving the with block, normally or by an exception, closes the handle
\* (faulty variant: a close() after the read instead of a with block)
WithExit_leaky(h, raised) == IF raised THEN h ELSE h - 1
WithExit(h, raised) == h - 1

InitFits ==
    /\ openHandles = 0
    /\ readLog = <<>>
    /\ fitsRet = None
    \* the other components at rest
    /\ data = <<>>
    /\ generator = None
    /\ frame_num = None
    /\ nCalls = 0
    /\ lastArg = None
    /\ lastRet = None
    /\ outcome = "new"
    /\ firstArg = <<>>
    /\ laterIdx = FALSE
    /\ renderFailed = FALSE
    /\ exhaustedSeen = FALSE
    /\ exhaustedRec = FALSE
    /\ cursors = <<>>
    /\ gridIn = ExampleGrid
    /\ gridFn = ""
    /\ axes = <<>>
    /\ figsize = None
    /\ gridOutcome = "idle"
    /\ fetchIn = [rows |-> <<>>, fail |-> "none", kind |-> "ConnectionError"]
    /\ fetched = None
    /\ fetchResult = None
    /\ fetchOutcome = "idle"

read_fits_single(file, how) ==
    /\ Len(readLog) < MaxReads
    /\ openHandles' =
          IF how = "open_raises" THEN AfterOpen(openHandles, how)
          ELSE WithExit(AfterOpen(openHandles, how), how = "data_raises")
    /\ fitsRet' = IF how = "ok" THEN Some([copy_of |-> file]) ELSE None
    /\ readLog' = Append(readLog, [file |-> file, how |-> how])
    /\ UNCHANGED <<viewerVars, gridVars, fetchVars>>

NextFits == \E file \in Files, how \in ReadCases : read_fits_single(file, how)

SpecViewer == InitViewer /\ [][NextViewer]_vars
SpecGrid == InitGrid /\ [][NextGrid]_vars
SpecFetch == InitFetch /\ [][NextFetch]_vars
SpecFits == InitFits /\ [][NextFits]_vars

(***************************************************************************)
(* Claims about solocube.frame_viewer                                      *)
(***************************************************************************)
\* the start index s the first call fixed (0 when it supplied none)
FirstStart == IF firstArg[1] = None THEN 0 ELSE firstArg[1][1]

\* the frame the k-th call of a run from index s is to return
ExpectedRet(k) ==
    IF k <= Len(data) - FirstStart THEN Some(data[FirstStart + k]) ELSE None

C1_Case ==
    /\ nCalls >= 1
    /\ ~renderFailed
    /\ FirstStart \in 0..Len(data)
    /\ nCalls <= Len(data) - FirstStart + 1

C1_Result ==
    /\ outcome = "returned"
    /\ lastRet = ExpectedRet(nCalls)
    /\ nCalls = Len(data) - FirstStart + 1 => Exhausted(generator[1])

\* C1 as stated: whatever the later calls pass, the calls of a viewer whose
\* first call fixed start index s (0 <= s <= N, none meaning 0) and whose
\* renders succeed return data[s], ..., data[N-1] in order, and call
\* number N-s+1 returns None and leaves the generator exhausted.
C1_AnyLaterArgs == C1_Case => C1_Result

\* C1 amended: the same, for runs in which the first call supplied the start
\* index or no later call supplies one.
C1_FramesInOrder ==
    (C1_Case /\ (firstArg[1] = None => ~laterIdx)) => C1_Result

C1_Witness ==
    /\ C1_Case
    /\ firstArg[1] # None /\ FirstStart = 1 /\ Len(data) = 3
    /\ data[2] # data[3]
    /\ laterIdx
    /\ nCalls = 3 /\ lastRet = None /\ Exhausted(generator[1])

IsCall == nCalls' = nCalls + 1

\* the call continues the existing cursor exactly as a call without a start
\* index would
ContinuesCursor ==
    /\ generator' = Some(Advance(generator[1]))
    /\ outcome' = "returned" => lastRet' = NextFrame(generator[1])

\* C2 as stated: whenever a generator exists, however it was created, a call
\* that supplies a start index leaves the cursor where a call without one
\* would and returns the same frame.
C2_IgnoredWheneverCursorExists ==
    [][(IsCall /\ generator # None /\ lastArg' # None) => ContinuesCursor]_vars

\* C2 amended: whenever a start index is already recorded (an earlier call
\* supplied one), a call that supplies a start index leaves the cursor where
\* a call without one would and returns the same frame.
C2_IgnoredOnceRecorded ==
    [][(IsCall /\ frame_num # None /\ lastArg' # None)
          => (generator # None /\ ContinuesCursor)]_vars

C2_Witness ==
    /\ nCalls = 2
    /\ firstArg = <<Some(1)>> /\ frame_num = Some(1)
    /\ lastArg = Some(0)
    /\ Len(data) = 3 /\ data[1] # data[3]
    /\ outcome = "returned" /\ lastRet = Some(data[3])

StaysExhausted ==
    /\ outcome' = "returned"
    /\ lastRet' = None
    /\ cursors' = cursors

\* C3 as stated: once a call has reported exhaustion, every later call, with
\* any arguments, returns None and creates no new generator.
C3_ExhaustedAbsorbing == [][(IsCall /\ exhaustedSeen) => StaysExhausted]_vars

\* C3 amended: once a call has reported exhaustion, every later call returns
\* None and creates no new generator, provided a start index was recorded when
\* the exhaustion was reported or no call has supplied one up to and
\* including this call.
C3_ExhaustedAbsorbingOnceRecorded ==
    [][(IsCall /\ (\/ exhaustedRec
                   \/ exhaustedSeen /\ frame_num = None /\ lastArg' = None))
          => StaysExhausted]_vars

C3_Witness ==
    /\ Len(data) = 2
    /\ firstArg = <<Some(2)>>
    /\ exhaustedRec
    /\ nCalls = 3
    /\ lastArg = Some(0)
    /\ laterIdx
    /\ outcome = "returned" /\ lastRet = None
    /\ Len(cursors) = 1

\* a generator beginning at the index this call supplied was created by it
IndexCursorCreated ==
    /\ lastArg' # None
    /\ Len(cursors') > Len(cursors)
    /\ cursors'[Len(cursors')] = [by |-> "index", start |-> lastArg']
    /\ generator' = Some(Advance(frame_generator(SliceFrom(data, lastArg'[1]))))

C10_Step ==
    IsCall =>
      /\ frame_num' # frame_num =>
            (frame_num = None /\ lastArg' # None /\ frame_num' = lastArg')
      /\ IndexCursorCreated <=> (lastArg' # None /\ frame_num = None)
      /\ ~IndexCursorCreated =>
            \A k \in (Len(cursors) + 1)..Len(cursors') : cursors'[k].by = "lazy"

C10_State ==
    /\ frame_num = None => (firstArg \in {<<>>, <<None>>} /\ ~laterIdx)
    /\ Cardinality({k \in 1..Len(cursors) : cursors[k].by = "index"}) <= 1

\* C10: frame_num is write-once (it changes only from None to the first start
\* index ever supplied), a call creates a generator beginning at the supplied
\* index iff it supplies an index while frame_num is None, and so at most one
\* supplied start index is honoured per viewer.
C10_WriteOnceStart == [](C10_State) /\ [][C10_Step]_vars

C10_Witness ==
    /\ firstArg = <<None>>
    /\ frame_num = Some(2)
    /\ lastArg = Some(0)
    /\ nCalls = 3
    /\ Len(cursors) = 2 /\ cursors[1].by = "lazy" /\ cursors[2].by = "index"
    /\ Len(data) = 3 /\ lastRet = None /\ outcome = "returned"

(***************************************************************************)
(* Claims about the image grid                                             *)
(***************************************************************************)
GridN == gridIn.n
GridCols == gridIn.cols
\* ceil(N / cols): the least r with r * cols >= N
GridRows == CHOOSE r \in 1..GridN : r * GridCols >= GridN /\ (r - 1) * GridCols < GridN

\* the canvas in pixels: figsize in inches times dpi
CanvasW == (figsize[1][1].num * gridIn.dpi) \div figsize[1][1].den
CanvasH == (figsize[1][2].num * gridIn.dpi) \div figsize[1][2].den

\* a figure fraction of `total` pixels is a whole number of pixels
WholePx(f, total) == (f.num * total) % f.den = 0
ToPx(f, total) == (f.num * total) \div f.den

\* rectangle i (1-based position in axes) in pixels, y measured from the bottom
PxRect(i) ==
    LET r == axes[i]
        x0 == ToPx(r.left, CanvasW)
        y0 == ToPx(r.bottom, CanvasH)
    IN  [x0 |-> x0, x1 |-> x0 + ToPx(r.width, CanvasW),
         y0 |-> y0, y1 |-> y0 + ToPx(r.height, CanvasH)]

AllWholePx ==
    \A i \in 1..Len(axes) :
        /\ WholePx(axes[i].left, CanvasW) /\ WholePx(axes[i].width, CanvasW)
        /\ WholePx(axes[i].bottom, CanvasH) /\ WholePx(axes[i].height, CanvasH)

InteriorsDisjoint(a, b) ==
    \/ a.x1 <= b.x0 \/ b.x1 <= a.x0
    \/ a.y1 <= b.y0 \/ b.y1 <= a.y0

\* C4: the rectangles of two distinct images never overlap, and cells that
\* are neighbours in a row or in a column are exactly gap pixels apart.
C4_NoOverlapGapApart ==
    axes # <<>> =>
      /\ AllWholePx
      /\ \A i, j \in 1..Len(axes) :
            i # j => InteriorsDisjoint(PxRect(i), PxRect(j))
      /\ \A i \in 1..Len(axes) :
            /\ (i + 1 <= Len(axes) /\ i % GridCols # 0) =>
                  /\ PxRect(i + 1).x0 - PxRect(i).x1 = gridIn.gap
                  /\ PxRect(i + 1).y0 = PxRect(i).y0
                  /\ PxRect(i + 1).y1 = PxRect(i).y1
            /\ i + GridCols <= Len(axes) =>
                  /\ PxRect(i).y0 - PxRect(i + GridCols).y1 = gridIn.gap
                  /\ PxRect(i + GridCols).x0 = PxRect(i).x0
                  /\ PxRect(i + GridCols).x1 = PxRect(i).x1

C4_Witness ==
    /\ gridOutcome = "returned"
    /\ gridFn = "plot_aia_image_grid"
    /\ Len(axes) = 4 /\ GridCols = 2 /\ gridIn.gap = 1
    /\ gridIn.H = 2 /\ gridIn.W = 1

Half == Frac(1, 2)
Zero == Frac(0, 1)
RectEq(r, l, b, w, h) ==
    /\ FracEq(r.left, l) /\ FracEq(r.bottom, b)
    /\ FracEq(r.width, w) /\ FracEq(r.height, h)

\* C5: image i is the W-by-H cell of row i // cols, column i % cols counted
\* from the top-left: left edge col*(W+gap) pixels from the canvas left, top
\* edge row*(H+gap) pixels from the canvas top, inside the canvas of
\* cols*W+(cols-1)*gap by rows*H+(rows-1)*gap pixels, rows = ceil(N/cols);
\* and N=3, H=W=10, cols=2, gap=0 gives (0,.5,.5,.5), (.5,.5,.5,.5), (0,0,.5,.5).
C5_RowMajorFromTopLeft ==
    axes # <<>> =>
      /\ AllWholePx
      /\ CanvasW = GridCols * gridIn.W + (GridCols - 1) * gridIn.gap
      /\ CanvasH = GridRows * gridIn.H + (GridRows - 1) * gridIn.gap
      /\ \A i \in 1..Len(axes) :
            LET row == (i - 1) \div GridCols
                col == (i - 1) % GridCols
                r == PxRect(i)
            IN  /\ r.x1 - r.x0 = gridIn.W
                /\ r.y1 - r.y0 = gridIn.H
                /\ r.x0 = col * (gridIn.W + gridIn.gap)
                /\ CanvasH - r.y1 = row * (gridIn.H + gridIn.gap)
                /\ 0 <= r.x0 /\ r.x1 <= CanvasW
                /\ 0 <= r.y0 /\ r.y1 <= CanvasH
      /\ (gridIn = ExampleGrid /\ Len(axes) = 3) =>
            /\ RectEq(axes[1], Zero, Half, Half, Half)
            /\ RectEq(axes[2], Half, Half, Half, Half)
            /\ RectEq(axes[3], Zero, Zero, Half, Half)

C5_Witness ==
    /\ gridIn = ExampleGrid
    /\ gridFn = "plot_image_grid"
    /\ gridOutcome = "returned"
    /\ Len(axes) = 3

GridDone == gridOutcome \in {"returned", "shown"}

CanvasPixels == (0..(CanvasW - 1)) \X (0..(CanvasH - 1))

\* the canvas pixels covered by at least one rectangle
UnionArea ==
    LET rects == [i \in 1..Len(axes) |-> PxRect(i)]
    IN  Cardinality({p \in CanvasPixels :
            \E i \in 1..Len(axes) :
                /\ rects[i].x0 <= p[1] /\ p[1] < rects[i].x1
                /\ rects[i].y0 <= p[2] /\ p[2] < rects[i].y1})

\* the canvas pixels of the gap strips: in no cell of the rows-by-cols grid
GapArea ==
    LET ch == CanvasH
    IN  Cardinality({p \in CanvasPixels :
            \/ p[1] % (gridIn.W + gridIn.gap) >= gridIn.W
            \/ (ch - 1 - p[2]) % (gridIn.H + gridIn.gap) >= gridIn.H})

UnusedCellsArea == (GridRows * GridCols - GridN) * gridIn.W * gridIn.H

\* C6 as stated: the area of the union of the rectangles is the canvas area
\* minus the area of the unused trailing cells of the last row.
C6_UnionIsCanvasLessUnused ==
    GridDone => UnionArea = CanvasW * CanvasH - UnusedCellsArea

\* C6 amended: the area of the union of the rectangles is the canvas area
\* minus the area of the unused trailing cells of the last row and minus the
\* area of the gap strips between the cells.
C6_UnionIsCanvasLessUnusedAndGaps ==
    GridDone => UnionArea = CanvasW * CanvasH - UnusedCellsArea - GapArea

C6_Witness ==
    /\ GridDone
    /\ GridN = 3 /\ GridCols = 2 /\ gridIn.gap = 1
    /\ gridIn.W = 2 /\ gridIn.H = 1
    /\ UnionArea = 6 /\ GapArea = 7 /\ UnusedCellsArea = 2

(***************************************************************************)
(* Claims about fetch_goes_data                                            *)
(***************************************************************************)
HighestSatellite == CHOOSE s \in Satellites :
    /\ \E i \in 1..Len(fetchIn.rows) : fetchIn.rows[i] = s
    /\ \A i \in 1..Len(fetchIn.rows) : fetchIn.rows[i] <= s

\* C7: every row passed to the download step belongs to the satellite with
\* the highest SatelliteNumber among the search results.
C7_OnlyHighestSatelliteFetched ==
    fetched # None =>
        \A i \in 1..Len(fetched[1]) : fetched[1][i] = HighestSatellite

\* C8: the call ends by returning the truncated series or by raising
\* RuntimeError and in no other way; a failure at any step, an empty search
\* result included, ends in RuntimeError, and then nothing is returned.
C8_ReturnsOrRuntimeError ==
    fetchOutcome # "idle" =>
      /\ fetchOutcome \in {"returned", "RuntimeError"}
      /\ (fetchIn.fail # "none" \/ fetchIn.rows = <<>>) =>
            fetchOutcome = "RuntimeError"
      /\ fetchOutcome = "RuntimeError" => fetchResult = None
      /\ fetchOutcome = "returned" =>
            /\ fetchIn.fail = "none"
            /\ fetched # None /\ fetchResult = fetched

C8_Witness ==
    /\ fetchIn.rows = <<>>
    /\ fetchIn.fail = "none"
    /\ fetchOutcome = "RuntimeError"
    /\ fetchResult = None

(***************************************************************************)
(* Claims about read_fits_single                                           *)
(***************************************************************************)
\* C9: whenever read_fits_single has returned or raised, the handle it
\* opened is closed: after any sequence of calls no handle is left open.
C9_NoHandleLeftOpen == openHandles = 0

C9_Witness ==
    /\ Len(readLog) = 3
    /\ readLog[1].how = "data_raises"
    /\ readLog[2].how = "ok"
    /\ readLog[3].how = "del_raises"
    /\ openHandles = 0

====
